---------------------------- MODULE Spec2Model ----------------------------
(***************************************************************************)
(* The follow-back pipeline of bot.py: main() scans the paginated          *)
(* follower listing, calls follow_user() on followers behind the persisted *)
(* cursor and records progress in four files.  One action per statement    *)
(* group of main(), so that an interruption (KeyboardInterrupt) or a kill  *)
(* of the process can fall between any two file writes.                    *)
(***************************************************************************)
EXTENDS Integers, Sequences, FiniteSets

(* ------------------------------ bounds --------------------------------- *)
\* Logins are 1..MaxFollowers, numbered in the order the accounts started to
\* follow; the listing is most-recent-first.
MaxFollowers == 3
\* Page size of the listing (bot.py asks for 100 per page; scaled down).
per_page == 2

(* --------------------------- program constants ------------------------- *)
MAX_RETRIES == 5
RATE_LIMIT_THRESHOLD == 100
DELAY_ON_RATE_LIMIT == 300
\* get_last_checked_follower's None: no cursor persisted.
None == 0

\* A response to a request: its status code and whether the body carries a
\* rate-limit / abuse-detection text.  NetErr is a RequestException (no
\* response at all).
Codes == {204, 401, 403, 404, 429, 500}
Responses == [code : Codes, rl : {FALSE}] \cup {[code |-> 403, rl |-> TRUE]}
NetErr == [code |-> 0, rl |-> FALSE]
NoResponse == [code |-> 1, rl |-> FALSE]

\* What check_rate_limit() returns: (remaining, reset_time) of the core
\* resource, or (None, None) when the query failed.  reset_time is kept
\* relative to the clock at the time of the check (reset_time - time.time()):
\* one reset that is already past, one further away than the fallback delay.
QueryFailed == [st |-> "failed", remaining |-> 0, reset_time |-> 0]
RateAnswers ==
    [st : {"ok"},
     remaining : {RATE_LIMIT_THRESHOLD - 1, RATE_LIMIT_THRESHOLD},
     reset_time : {0 - 1, DELAY_ON_RATE_LIMIT + 1}]
\* No rate-limit answer is held: none was asked for since the last request.
NoQuery == [st |-> "none", remaining |-> 0, reset_time |-> 0]

\* Page fetches that fail in a row are counted up to this number.
MaxFetchFailures == MAX_RETRIES + 1

\* The listing endpoint has answered nothing yet.
NoAnswer == [status |-> 0, body |-> <<>>]

VARIABLES
    \* upstream service
    upstream,                \* the follower listing, most recent first
    created,                 \* number of logins that ever followed
    \* the four state files
    followersFile,           \* followers.txt: the lines, in file order
    counterFile,             \* follower_counter.txt
    lastCheckedFile,         \* last_checked_follower.txt (None: absent/empty)
    currentPageFile,         \* current_page.txt
    \* main()'s locals
    pc,
    followed_users,
    last_checked_follower,
    current_page,
    total_followers_followed,
    resume,
    followers,               \* the page being iterated
    idx,                     \* iterations of `for follower in followers` completed
    user,
    \* follow_user()'s locals
    attempt,                 \* requests issued by the current follow_user call
    response,                \* the last response it received
    success,
    \* the rate-limit check of main()
    rate,                    \* (remaining, reset_time) of the last check
    slept,                   \* seconds slept on it (0: no sleep)
    fetchFailures,           \* fetches of the current page failed in a row
    malformed,               \* the last of them got an undecodable payload
    \* get_followers() of web_api_check.py
    api_pc,
    api_page,                \* its local `page`
    api_followers,           \* its list `followers`
    api_upstream,            \* status of the upstream answer it got last
    api_answer,              \* what the endpoint answered: status and body
    \* history of the run (not program state)
    runAttempts,             \* logins a follow request was issued for, in order
    nSuccess,                \* follow_user calls that returned True
    counterAtStart,          \* counterFile when the run started
    startPage,               \* current_page when the run started
    endedBy,                 \* how the run ended
    prevEnd,                 \* how the previous run ended
    env,                     \* change of upstream since the previous run ended
    stoppedAt,               \* where an interruption or kill hit the run
    unauthorized,            \* a request of the run was answered 401
    owed                     \* logins an uninterrupted run would still attempt

storeVars == <<followersFile, counterFile, lastCheckedFile, currentPageFile>>
envVars == <<upstream, created>>
localVars == <<followed_users, last_checked_follower, current_page,
               total_followers_followed, resume, followers, idx, user>>
followVars == <<attempt, response, success>>
rateVars == <<rate, slept, fetchFailures, malformed>>
webVars == <<api_pc, api_page, api_followers, api_upstream, api_answer>>
histVars == <<runAttempts, nSuccess, counterAtStart, startPage, endedBy,
              prevEnd, env, stoppedAt, unauthorized, owed>>
botVars == <<envVars, storeVars, pc, localVars, followVars, rateVars,
             histVars>>
vars == <<botVars, webVars>>

(* ------------------------------ helpers -------------------------------- *)
Range(s) == {s[i] : i \in 1..Len(s)}

Min(a, b) == IF a <= b THEN a ELSE b

Max(a, b) == IF a >= b THEN a ELSE b

\* Position of x in s (0 when absent).
IndexOf(s, x) ==
    IF \E i \in 1..Len(s) : s[i] = x
    THEN CHOOSE i \in 1..Len(s) : s[i] = x /\ \A j \in 1..(i - 1) : s[j] # x
    ELSE 0

\* GET followers?per_page=per_page&page=p on the listing `list`.
ListPage(list, p) ==
    SubSeq(list, (p - 1) * per_page + 1, Min(p * per_page, Len(list)))

\* s without its element at position i.
RemoveAt(s, i) == SubSeq(s, 1, i - 1) \o SubSeq(s, i + 1, Len(s))


(* --------------------------- pure functions ---------------------------- *)
\* handle_rate_limit(response): TRUE when the request should be retried.
handle_rate_limit(r) ==
    IF r.code = 403 THEN r.rl
    ELSE IF r.code = 429 THEN TRUE
    ELSE FALSE

\* (mutation: a 404 is retried like a rate-limited answer)
FollowResult_NotFoundRetried(r) ==
    IF r = NetErr THEN "retry"
    ELSE IF r.code = 204 THEN "true"
    ELSE IF r.code = 401 THEN "false"
    ELSE IF r.code \in {404, 429} THEN "retry"
    ELSE IF r.code = 403 /\ r.rl THEN "retry"
    ELSE "false"

\* (mutation: a 403 is retried whether or not it is a rate-limit answer)
FollowResult_ForbiddenRetried(r) ==
    IF r = NetErr THEN "retry"
    ELSE IF r.code = 204 THEN "true"
    ELSE IF r.code = 401 THEN "false"
    ELSE IF r.code \in {403, 429} THEN "retry"
    ELSE "false"

\* What one pass of follow_user's loop body does with its response:
\* "true" / "false" are returns, "retry" goes to the next attempt.
FollowResult(r) ==
    IF r = NetErr THEN "retry"
    ELSE IF r.code = 204 THEN "true"
    ELSE IF r.code = 401 THEN "false"
    ELSE IF r.code = 403 /\ handle_rate_limit(r) THEN "retry"
    ELSE IF r.code = 429 THEN "retry"
    ELSE "false"

\* (mutation: the scan always starts out skipping)
InitialResume_AlwaysSkipping(cursor) == FALSE

\* resume = False if last_checked_follower else True
InitialResume(cursor) == cursor = None

\* The for-loop's decision on one login while still skipping (not resume):
\* the new value of resume.  The login itself is skipped either way.
ResumeAfter(u, cursor) == u = cursor

\* The followers that are handed to follow_user by a run that starts with
\* this listing, cursor, page and followed set and is left to finish: the
\* pages from `page` on are scanned in listing order, everything up to and
\* including the cursor is skipped, already followed logins are skipped.
ExpectedAttempts(list, cursor, page, followed) ==
    LET first == (page - 1) * per_page + 1
        k == IndexOf(list, cursor)
        from == IF InitialResume(cursor) THEN first
                ELSE IF k >= first THEN k + 1
                ELSE Len(list) + 1
    IN  {list[i] : i \in {j \in from..Len(list) : list[j] \notin followed}}

(* ------------------------------- Init ---------------------------------- *)
\* No run of the bot is in progress.
NotRunning ==
    /\ pc = "idle"
    /\ followed_users = {}
    /\ last_checked_follower = None
    /\ current_page = 1
    /\ total_followers_followed = 0
    /\ resume = TRUE
    /\ followers = <<>>
    /\ idx = 0
    /\ user = None
    /\ attempt = 0
    /\ response = NoResponse
    /\ success = FALSE
    /\ rate = NoQuery
    /\ slept = 0
    /\ fetchFailures = 0
    /\ malformed = FALSE
    /\ runAttempts = <<>>
    /\ nSuccess = 0
    /\ startPage = 1
    /\ endedBy = "none"
    /\ prevEnd = "none"
    /\ env = "same"
    /\ stoppedAt = "none"
    /\ unauthorized = FALSE
    /\ owed = {}

\* The listing endpoint is handling no request.
NoRequest ==
    /\ api_pc = "idle"
    /\ api_page = 1
    /\ api_followers = <<>>
    /\ api_upstream = 0
    /\ api_answer = NoAnswer

Init ==
    /\ upstream = <<>>
    /\ created = 0
    /\ followersFile = <<>>
    /\ counterFile = 0
    /\ lastCheckedFile = None
    /\ currentPageFile = 1
    /\ counterAtStart = 0
    /\ NotRunning
    /\ NoRequest

(* --------------------------- the upstream ------------------------------ *)
\* A new account follows: it appears at the head of the listing.
NewFollower ==
    /\ pc = "idle"
    /\ created < MaxFollowers
    /\ created' = created + 1
    /\ upstream' = <<created + 1>> \o upstream
    /\ env' = IF env = "same" THEN "newhead" ELSE "other"
    /\ UNCHANGED <<storeVars, pc, localVars, followVars, rateVars,
                   runAttempts, nSuccess,
                   counterAtStart, startPage, endedBy, prevEnd,
                   unauthorized, stoppedAt,
                   owed>>
    /\ UNCHANGED webVars

\* An account stops following (or is deleted): it leaves the listing.
Unfollow ==
    /\ pc = "idle"
    /\ \E i \in 1..Len(upstream) : upstream' = RemoveAt(upstream, i)
    /\ env' = "other"
    /\ UNCHANGED <<created, storeVars, pc, localVars, followVars, rateVars,
                   runAttempts,
                   nSuccess, counterAtStart, startPage, endedBy, prevEnd,
                   unauthorized,
                   stoppedAt, owed>>
    /\ UNCHANGED webVars

(* ------------------------------ main() --------------------------------- *)
\* Lines 214-231, 243: load the four files, set resume (which nothing
\* touches before the loop).
StartRun ==
    /\ pc = "idle"
    /\ followed_users' = Range(followersFile)
    /\ last_checked_follower' = lastCheckedFile
    /\ current_page' = currentPageFile
    /\ total_followers_followed' = counterFile
    /\ resume' = InitialResume(lastCheckedFile)
    /\ pc' = "ratecheck0"
    /\ runAttempts' = <<>>
    /\ nSuccess' = 0
    /\ counterAtStart' = counterFile
    /\ startPage' = currentPageFile
    /\ endedBy' = "running"
    /\ owed' = IF prevEnd \in {"interrupt", "crash"} /\ env = "same"
               THEN owed
               ELSE ExpectedAttempts(upstream, lastCheckedFile, currentPageFile,
                                     Range(followersFile))
    /\ UNCHANGED <<envVars, storeVars, followers, idx, user, followVars,
                   rateVars,
                   prevEnd, unauthorized, env, stoppedAt>>
    /\ UNCHANGED webVars

(* ------------------------ the rate-limit checks ------------------------ *)
\* Lines 238, 314: `remaining is not None and remaining < RATE_LIMIT_THRESHOLD`
ShouldThrottle(r) == r.st = "ok" /\ r.remaining < RATE_LIMIT_THRESHOLD

\* (mutation: the shorter of the two durations)
ThrottleDuration_Shorter(r) == Min(r.reset_time, DELAY_ON_RATE_LIMIT)

\* Lines 239, 315: max(reset_time - int(time.time()), DELAY_ON_RATE_LIMIT)
ThrottleDuration(r) == Max(r.reset_time, DELAY_ON_RATE_LIMIT)

\* Lines 237-238: the check before the loop (outside the try block).
InitialRateCheck ==
    /\ pc = "ratecheck0"
    /\ \E a \in RateAnswers \cup {QueryFailed} :
        /\ rate' = a
        /\ pc' = IF ShouldThrottle(a) THEN "ratesleep0" ELSE "fetch"
    /\ slept' = 0
    /\ UNCHANGED <<envVars, storeVars, localVars, followVars, fetchFailures,
                   malformed, histVars>>
    /\ UNCHANGED webVars

\* Lines 239-241: the sleep on a low quota.
InitialRateSleep ==
    /\ pc = "ratesleep0"
    /\ slept' = ThrottleDuration(rate)
    /\ pc' = "fetch"
    /\ UNCHANGED <<envVars, storeVars, localVars, followVars, rate,
                   fetchFailures, malformed, histVars>>
    /\ UNCHANGED webVars

\* Lines 313-314, 319: the check after a page; without a sleep the loop goes
\* on with the next page.
PageRateCheck ==
    /\ pc = "ratecheck"
    /\ \E a \in RateAnswers \cup {QueryFailed} :
        /\ rate' = a
        /\ IF ShouldThrottle(a)
           THEN pc' = "ratesleep" /\ UNCHANGED <<current_page, idx>>
           ELSE pc' = "fetch" /\ current_page' = current_page + 1 /\ idx' = 0
    /\ slept' = 0
    /\ UNCHANGED <<envVars, storeVars, followed_users, last_checked_follower,
                   total_followers_followed, resume, followers, user,
                   followVars, fetchFailures, malformed, histVars>>
    /\ UNCHANGED webVars

\* Lines 315-319: the sleep on a low quota, then the next page.
PageRateSleep ==
    /\ pc = "ratesleep"
    /\ slept' = ThrottleDuration(rate)
    /\ current_page' = current_page + 1
    /\ idx' = 0
    /\ pc' = "fetch"
    /\ UNCHANGED <<envVars, storeVars, followed_users, last_checked_follower,
                   total_followers_followed, resume, followers, user,
                   followVars, rate, fetchFailures, malformed, histVars>>
    /\ UNCHANGED webVars

(* ------------------------------ the loop ------------------------------- *)
\* Lines 246-272: the page is fetched and decoded.  An empty page ends the
\* loop (break), which leads to line 340.
FetchOk ==
    /\ pc = "fetch"
    /\ followers' = ListPage(upstream, current_page)
    /\ idx' = 0
    /\ IF Len(followers') = 0
       THEN pc' = "final" /\ endedBy' = "normal"
       ELSE pc' = "scan" /\ UNCHANGED endedBy
    /\ rate' = NoQuery
    /\ slept' = 0
    /\ fetchFailures' = 0
    /\ malformed' = FALSE
    /\ UNCHANGED <<envVars, storeVars, followed_users, last_checked_follower,
                   current_page, total_followers_followed, resume, user,
                   followVars, runAttempts, nSuccess, counterAtStart,
                   startPage, prevEnd, unauthorized, env, stoppedAt, owed>>
    /\ UNCHANGED webVars

\* Line 253: the answers raise_for_status() raises HTTPError on.
HttpErrors == {r \in Responses : r.code >= 400}

\* Lines 253, 320-325: raise_for_status() raises HTTPError; a rate-limited
\* answer is slept on and the same page fetched again, any other ends the loop.
FetchHttpError ==
    /\ pc = "fetch"
    /\ \E r \in HttpErrors :
        /\ IF handle_rate_limit(r)
           THEN /\ fetchFailures < MaxFetchFailures
                /\ fetchFailures' = fetchFailures + 1
                /\ UNCHANGED <<pc, endedBy>>
           ELSE /\ fetchFailures' = 0
                /\ pc' = "final"
                /\ endedBy' = "httperror"
        /\ unauthorized' = (unauthorized \/ r.code = 401)
    /\ malformed' = FALSE
    /\ rate' = NoQuery
    /\ slept' = 0
    /\ UNCHANGED <<envVars, storeVars, localVars, followVars, runAttempts,
                   nSuccess, counterAtStart, startPage, prevEnd, env,
                   stoppedAt, owed>>
    /\ UNCHANGED webVars

\* Lines 326-331: RequestException: sleep, fetch the same page again.
FetchNetError ==
    /\ pc = "fetch"
    /\ fetchFailures < MaxFetchFailures
    /\ fetchFailures' = fetchFailures + 1
    /\ malformed' = FALSE
    /\ rate' = NoQuery
    /\ slept' = 0
    /\ UNCHANGED <<envVars, storeVars, pc, localVars, followVars, histVars>>
    /\ UNCHANGED webVars

\* Lines 254, 326-334: response.json() cannot decode the body.  What it
\* raises depends on the installed requests: a json.JSONDecodeError only
\* (line 332: break), or one that is a RequestException as well (line 326,
\* which comes first: the same page is fetched again).
FetchMalformed ==
    /\ pc = "fetch"
    /\ \/ /\ fetchFailures < MaxFetchFailures
          /\ fetchFailures' = fetchFailures + 1
          /\ UNCHANGED <<pc, endedBy>>
       \/ /\ fetchFailures' = 0
          /\ pc' = "final"
          /\ endedBy' = "jsonerror"
    /\ malformed' = TRUE
    /\ rate' = NoQuery
    /\ slept' = 0
    /\ UNCHANGED <<envVars, storeVars, localVars, followVars, runAttempts,
                   nSuccess, counterAtStart, startPage, prevEnd,
                   unauthorized, env,
                   stoppedAt, owed>>
    /\ UNCHANGED webVars

\* Lines 274-290: one iteration of the for loop that does not reach
\* follow_user: still skipping up to the cursor, or already followed.
\* (Every listed follower has a login.)
\* (mutation: no login counts as already followed)
AlreadyFollowed_Never(u, followed) == FALSE

\* Line 288: if user in followed_users
AlreadyFollowed(u, followed) == u \in followed

ScanSkip ==
    /\ pc = "scan"
    /\ idx < Len(followers)
    /\ LET u == followers[idx + 1] IN
        /\ \/ /\ ~resume
              /\ resume' = ResumeAfter(u, last_checked_follower)
           \/ /\ resume
              /\ AlreadyFollowed(u, followed_users)
              /\ UNCHANGED resume
        /\ idx' = idx + 1
    /\ UNCHANGED <<envVars, storeVars, pc, followed_users, last_checked_follower,
                   current_page, total_followers_followed, followers, user,
                   followVars, rateVars, histVars>>
    /\ UNCHANGED webVars

\* Lines 274-292: the iteration reaches success = follow_user(user).
ScanCall ==
    /\ pc = "scan"
    /\ idx < Len(followers)
    /\ resume
    /\ ~AlreadyFollowed(followers[idx + 1], followed_users)
    /\ user' = followers[idx + 1]
    /\ attempt' = 0
    /\ response' = NoResponse
    /\ success' = FALSE
    /\ pc' = "follow"
    /\ UNCHANGED <<envVars, storeVars, followed_users, last_checked_follower,
                   current_page, total_followers_followed, resume, followers,
                   idx, rateVars, histVars>>
    /\ UNCHANGED webVars

\* Lines 309-310: the for loop is over: persist the page number.
\* (mutation: the number of the next page is written)
PersistedPage_Next(page) == page + 1

\* Line 310: the page number written is that of the page just processed.
PersistedPage(page) == page

PageDone ==
    /\ pc = "scan"
    /\ idx = Len(followers)
    /\ currentPageFile' = PersistedPage(current_page)
    /\ pc' = "ratecheck"
    /\ UNCHANGED <<envVars, followersFile, counterFile, lastCheckedFile,
                   localVars, followVars, rateVars, histVars>>
    /\ UNCHANGED webVars

(* ---------------------------- follow_user() ---------------------------- *)
\* Lines 176-203: one pass of `for attempt in range(1, MAX_RETRIES + 1)`:
\* the PUT request and what its answer (or a RequestException) leads to.
\* (mutation: the loop makes one pass more)
AttemptsLeft_OneMore(n) == n <= MAX_RETRIES

\* Line 176: `for attempt in range(1, MAX_RETRIES + 1)` has a pass left
\* after n passes.
AttemptsLeft(n) == n < MAX_RETRIES

FollowRequest ==
    /\ pc = "follow"
    /\ AttemptsLeft(attempt)
    /\ \E r \in Responses \cup {NetErr} :
        /\ response' = r
        /\ attempt' = attempt + 1
        /\ unauthorized' = (unauthorized \/ r.code = 401)
        /\ LET res == FollowResult(r) IN
            /\ success' = (res = "true")
            /\ nSuccess' = IF res = "true" THEN nSuccess + 1 ELSE nSuccess
            /\ pc' = IF res = "retry" /\ AttemptsLeft(attempt')
                     THEN "follow" ELSE "record"
    /\ runAttempts' = IF attempt = 0 THEN Append(runAttempts, user)
                      ELSE runAttempts
    /\ owed' = owed \ {user}
    /\ UNCHANGED <<envVars, storeVars, localVars, rateVars, counterAtStart,
                   startPage, endedBy, prevEnd, env, stoppedAt>>
    /\ UNCHANGED webVars

(* ----------------------- main(), after follow_user --------------------- *)
\* (mutation: the cursor is written only after a successful follow)
CursorAfterFollow_OnlyOnSuccess(u, ok, old) == IF ok THEN u ELSE old

\* Line 294: the cursor file is written after every call.
CursorAfterFollow(u, ok, old) == u

Record ==
    /\ pc = "record"
    /\ lastCheckedFile' = CursorAfterFollow(user, success, lastCheckedFile)
    /\ pc' = IF success THEN "append" ELSE "sleep"
    /\ UNCHANGED <<envVars, followersFile, counterFile, currentPageFile,
                   localVars, followVars, rateVars, histVars>>
    /\ UNCHANGED webVars

\* (mutation: the file is opened for writing, not for appending)
append_followed_user_Truncating(file, u) == <<u>>

\* Lines 74-77: the file is opened in mode 'a' and one line is written.
append_followed_user(file, u) == Append(file, u)

\* Lines 297-298: append to followers.txt, add to the in-memory set.
AppendFollowed ==
    /\ pc = "append"
    /\ followersFile' = append_followed_user(followersFile, user)
    /\ followed_users' = followed_users \cup {user}
    /\ pc' = "count"
    /\ UNCHANGED <<envVars, counterFile, lastCheckedFile, currentPageFile,
                   last_checked_follower, current_page,
                   total_followers_followed, resume, followers, idx, user,
                   followVars, rateVars, histVars>>
    /\ UNCHANGED webVars

\* Line 299: total_followers_followed += 1
Count ==
    /\ pc = "count"
    /\ total_followers_followed' = total_followers_followed + 1
    /\ pc' = "save"
    /\ UNCHANGED <<envVars, storeVars, followed_users, last_checked_follower,
                   current_page, resume, followers, idx, user, followVars,
                   rateVars,
                   histVars>>
    /\ UNCHANGED webVars

\* Line 300 and 340: update_follower_counter.
update_follower_counter(count) == count

SaveCounter ==
    /\ pc = "save"
    /\ counterFile' = update_follower_counter(total_followers_followed)
    /\ pc' = "sleep"
    /\ UNCHANGED <<envVars, followersFile, lastCheckedFile, currentPageFile,
                   localVars, followVars, rateVars, histVars>>
    /\ UNCHANGED webVars

\* (mutation: a failed follow breaks out of the for loop)
NextIteration_BreakOnFailure(i, ok, n) == IF ok THEN i + 1 ELSE n

\* Line 274: `for follower in followers` goes to the next follower of the
\* page whatever follow_user returned (i iterations of n are over).
NextIteration(i, ok, n) == i + 1

\* Lines 302-307: the delay between follows; the iteration is over.  (What
\* follow_user held, its pass number and the last answer, is kept up to
\* here and no further; main() keeps `success`.)
SleepBetweenFollows ==
    /\ pc = "sleep"
    /\ idx' = NextIteration(idx, success, Len(followers))
    /\ attempt' = 0
    /\ response' = NoResponse
    /\ pc' = "scan"
    /\ UNCHANGED <<envVars, storeVars, followed_users, last_checked_follower,
                   current_page, total_followers_followed, resume, followers,
                   user, success, rateVars, histVars>>
    /\ UNCHANGED webVars

(* ------------------------ ends of the run ------------------------------ *)
InTry == {"fetch", "scan", "follow", "record", "append", "count", "save",
          "sleep", "ratecheck", "ratesleep"}

\* Lines 335-337: KeyboardInterrupt anywhere in the try block: break.  (The
\* loop is left: what its checks and fetches held is of no use any more.)
Interrupt ==
    /\ pc \in InTry
    /\ pc' = "final"
    /\ endedBy' = "interrupt"
    /\ stoppedAt' = pc
    /\ rate' = NoQuery
    /\ slept' = 0
    /\ fetchFailures' = 0
    /\ malformed' = FALSE
    /\ UNCHANGED <<envVars, storeVars, localVars, followVars, runAttempts,
                   nSuccess, counterAtStart, startPage, prevEnd,
                   unauthorized, env, owed>>
    /\ UNCHANGED webVars

\* Line 340: the counter is written once more after the loop.
Final ==
    /\ pc = "final"
    /\ counterFile' = update_follower_counter(total_followers_followed)
    /\ pc' = "done"
    /\ UNCHANGED <<envVars, followersFile, lastCheckedFile, currentPageFile,
                   localVars, followVars, rateVars, histVars>>
    /\ UNCHANGED webVars

\* The process is killed: nothing more is written.
Crash ==
    /\ pc \in InTry \cup {"ratecheck0", "ratesleep0", "final"}
    /\ pc' = "done"
    /\ endedBy' = "crash"
    /\ stoppedAt' = IF stoppedAt = "none" THEN pc ELSE stoppedAt
    /\ rate' = NoQuery
    /\ slept' = 0
    /\ fetchFailures' = 0
    /\ malformed' = FALSE
    /\ UNCHANGED <<envVars, storeVars, localVars, followVars, runAttempts,
                   nSuccess, counterAtStart, startPage, prevEnd,
                   unauthorized, env, owed>>
    /\ UNCHANGED webVars

\* The process has exited; only the files remain.
Exit ==
    /\ pc = "done"
    /\ pc' = "idle"
    /\ prevEnd' = endedBy
    /\ env' = "same"
    /\ followed_users' = {}
    /\ last_checked_follower' = None
    /\ current_page' = 1
    /\ total_followers_followed' = 0
    /\ resume' = TRUE
    /\ followers' = <<>>
    /\ idx' = 0
    /\ user' = None
    /\ attempt' = 0
    /\ response' = NoResponse
    /\ success' = FALSE
    /\ rate' = NoQuery
    /\ slept' = 0
    /\ fetchFailures' = 0
    /\ malformed' = FALSE
    /\ runAttempts' = <<>>
    /\ nSuccess' = 0
    /\ counterAtStart' = counterFile
    /\ startPage' = 1
    /\ endedBy' = "none"
    /\ stoppedAt' = "none"
    /\ unauthorized' = FALSE
    /\ UNCHANGED <<envVars, storeVars, owed>>
    /\ UNCHANGED webVars

Next ==
    \/ NewFollower
    \/ Unfollow
    \/ StartRun
    \/ InitialRateCheck
    \/ InitialRateSleep
    \/ FetchOk
    \/ FetchHttpError
    \/ FetchNetError
    \/ FetchMalformed
    \/ ScanSkip
    \/ ScanCall
    \/ PageDone
    \/ PageRateCheck
    \/ PageRateSleep
    \/ FollowRequest
    \/ Record
    \/ AppendFollowed
    \/ Count
    \/ SaveCounter
    \/ SleepBetweenFollows
    \/ Interrupt
    \/ Final
    \/ Crash
    \/ Exit

Spec == Init /\ [][Next]_vars


(* ------------------- the listing endpoint (/followers) ------------------ *)
\* What the upstream listing can hold when a request arrives: accounts in
\* the order the listing keeps them, the newest first.
Listings ==
    {l \in UNION {[1..n -> 1..MaxFollowers] : n \in 0..MaxFollowers} :
        \A i \in 1..Len(l) : \A j \in 1..Len(l) : i < j => l[i] > l[j]}

\* The statuses other than 200 the upstream listing answers a page with.
UpstreamErrors == {401, 403, 404, 429, 500}

\* The server is up and the bot is not running; the files are as the bot
\* left them: nothing followed yet, or one login followed and recorded.
WebInit ==
    /\ upstream \in Listings
    /\ created = MaxFollowers
    /\ lastCheckedFile \in {None} \cup Range(upstream)
    /\ followersFile =
           IF lastCheckedFile = None THEN <<>> ELSE <<lastCheckedFile>>
    /\ counterFile = Len(followersFile)
    /\ currentPageFile \in {1, 2}
    /\ counterAtStart = counterFile
    /\ NotRunning
    /\ NoRequest

\* A request GET /followers arrives: followers = [], page = 1.
GetFollowers ==
    /\ api_pc \in {"idle", "answered"}
    /\ api_pc' = "get"
    /\ api_page' = 1
    /\ api_followers' = <<>>
    /\ api_upstream' = 0
    /\ api_answer' = NoAnswer
    /\ UNCHANGED botVars

\* (mutation: every other page is left out)
NextPage_Skipping(p) == p + 2

\* page += 1
NextPage(p) == p + 1

\* The upstream answers the page with 200: an empty page ends the loop and
\* the endpoint returns the list, any other page is added to the list.
PageOk ==
    /\ api_pc = "get"
    /\ api_upstream' = 200
    /\ LET data == ListPage(upstream, api_page)
       IN  IF data = <<>>
           THEN /\ api_pc' = "answered"
                /\ api_answer' = [status |-> 200, body |-> api_followers]
                /\ UNCHANGED <<api_page, api_followers>>
           ELSE /\ api_followers' = api_followers \o data
                /\ api_page' = NextPage(api_page)
                /\ UNCHANGED <<api_pc, api_answer>>
    /\ UNCHANGED botVars

\* The status of the endpoint's error response when the upstream answered
\* the page with status s: the HTTPException raised with s inside the try
\* is caught by `except Exception` and replaced by one with status 500.
ErrorStatus(s) == 500

\* The upstream answers the page with a status other than 200.
PageNot200 ==
    /\ api_pc = "get"
    /\ \E s \in UpstreamErrors :
          /\ api_upstream' = s
          /\ api_answer' = [status |-> ErrorStatus(s), body |-> <<>>]
    /\ api_pc' = "answered"
    /\ UNCHANGED <<api_page, api_followers>>
    /\ UNCHANGED botVars

\* The GET of the page fails in the client (aiohttp.ClientError).
PageClientError ==
    /\ api_pc = "get"
    /\ api_upstream' = 0
    /\ api_answer' = [status |-> 500, body |-> <<>>]
    /\ api_pc' = "answered"
    /\ UNCHANGED <<api_page, api_followers>>
    /\ UNCHANGED botVars

WebNext ==
    \/ GetFollowers
    \/ PageOk
    \/ PageNot200
    \/ PageClientError

WebSpec == WebInit /\ [][WebNext]_vars


(* ------------------ the upstream, with returning accounts --------------- *)
\* An account that had left the listing follows again: it appears at the
\* head of the listing under its old login.  Arrivals at the listing, of
\* new and of returning accounts, are counted together by `created`.
Refollow ==
    /\ pc = "idle"
    /\ created < MaxFollowers
    /\ created' = created + 1
    /\ \E u \in (1..created) \ Range(upstream) : upstream' = <<u>> \o upstream
    /\ env' = "other"
    /\ UNCHANGED <<storeVars, pc, localVars, followVars, rateVars,
                   runAttempts, nSuccess, counterAtStart, startPage, endedBy,
                   prevEnd, unauthorized, stoppedAt, owed>>
    /\ UNCHANGED webVars

RefollowNext ==
    \/ Next
    \/ Refollow

RefollowSpec == Init /\ [][RefollowNext]_vars


(* ------------------------------ claims --------------------------------- *)
RunEnded == pc = "done"
EndedNormally == pc = "done" /\ endedBy = "normal"

\* Positions of the listing whose for-loop iteration this run has completed.
ScannedPositions ==
    ((startPage - 1) * per_page + 1)
        ..Min((current_page - 1) * per_page + idx, Len(upstream))

\* Positions of the listing on the pages this run fetches when left to finish.
FetchedPositions == ((startPage - 1) * per_page + 1)..Len(upstream)

Attempted == Range(runAttempts)

\* C1: when the cursor is at position k of the listing, a run that finishes
\* has issued follow calls for exactly the logins at the positions before k
\* (stated for a run that follows a run that finished, too).
C1_FollowsExactlyNewerThanCursor ==
    LET k == IndexOf(upstream, last_checked_follower) IN
    (EndedNormally /\ prevEnd = "normal" /\ k > 0) =>
        Attempted = {upstream[i] : i \in 1..(k - 1)}

\* C2: a run finished normally, then one new follower appeared at the head of
\* the listing and nothing else changed: the next run, when it finishes, has
\* issued a follow call for that follower.
C2_NewHeadIsFollowedByNextRun ==
    (EndedNormally /\ prevEnd = "normal" /\ env = "newhead") =>
        Head(upstream) \in Attempted

\* C3: the cursor is set but its login is on none of the fetched pages: the
\* run finishes and every fetched follower got a follow call (unless it was
\* already in the followed set).  Stated for a run that follows a run that
\* finished.
C3_CursorNotFoundProcessesAll ==
    (/\ EndedNormally
     /\ prevEnd = "normal"
     /\ last_checked_follower # None
     /\ \A i \in FetchedPositions : upstream[i] # last_checked_follower)
    => \A i \in FetchedPositions :
           upstream[i] \in Attempted \cup followed_users

\* C4: with no cursor persisted at the start of the run, no fetched follower
\* is skipped by the cursor scan: every follower whose iteration is over got
\* a follow call or was already in the followed set, and a run that finishes
\* has gone through every follower of the pages it fetched.
C4_NullCursorProcessesAll ==
    (pc # "idle" /\ last_checked_follower = None) =>
        /\ \A i \in ScannedPositions :
               upstream[i] \in Attempted \cup followed_users
        /\ EndedNormally => ScannedPositions = FetchedPositions

C4_Witness ==
    /\ EndedNormally
    /\ last_checked_follower = None
    /\ Len(runAttempts) >= 3
    /\ current_page >= 3

\* C5: at the end of every run, interrupted (KeyboardInterrupt) or not, the
\* counter file holds its value before the run plus the number of follow
\* calls that returned success during the run.
C5_CounterCountsEverySuccess ==
    (RunEnded /\ endedBy # "crash") =>
        counterFile = counterAtStart + nSuccess

\* Whether the run was interrupted or killed while a follow attempt was in
\* flight: a request had been issued for `user` and line 294 had not run.
StoppedInFlight ==
    \/ stoppedAt = "record"
    \/ stoppedAt = "follow" /\ attempt > 0

C7_RerunAtHeadFollowsNobody ==
    (/\ EndedNormally
     /\ prevEnd # "crash"
     /\ env = "same"
     /\ upstream # <<>>
     /\ last_checked_follower = Head(upstream))
    => runAttempts = <<>>

\* C8: the follow calls of a run are issued oldest first (the reverse of the
\* listing order), and after a run in which every follow succeeded the cursor
\* file holds the head of the listing (stated for a first run and for a run
\* that follows a run that finished).
C8_OldestFirstCursorEndsAtHead ==
    (EndedNormally /\ prevEnd \in {"none", "normal"} /\ runAttempts # <<>>) =>
        /\ \A i, j \in 1..Len(runAttempts) :
               i < j => IndexOf(upstream, runAttempts[i])
                            > IndexOf(upstream, runAttempts[j])
        /\ nSuccess = Len(runAttempts) => lastCheckedFile = Head(upstream)

ReprocessedByNextRun(u) ==
    u \in ExpectedAttempts(upstream, lastCheckedFile, currentPageFile,
                           Range(followersFile))

\* C11: when a run has stopped (here: by KeyboardInterrupt, through line
\* 340) after the follow call for `user` returned success, that login is in
\* the followed file and every success of the run is in the counter file, or
\* the login is not yet behind the persisted cursor: the next run hands it to
\* follow_user again.
C11_StopLosesOnlyInFlight ==
    (RunEnded /\ endedBy = "interrupt" /\ success) =>
        \/ /\ user \in Range(followersFile)
           /\ counterFile = counterAtStart + nSuccess
        \/ ReprocessedByNextRun(user)

\* C12: one follow_user call issues at most MAX_RETRIES requests whatever
\* the answers are; when it returns after an answer that asks for a retry
\* (network error, rate-limited 403, 429) the attempts are used up and it
\* returns false; it returns true only when the last answer was a 204.
C12_AtMostMaxRetriesRequests ==
    /\ attempt <= MAX_RETRIES
    /\ (pc = "record" /\ FollowResult(response) = "retry") =>
           attempt = MAX_RETRIES /\ ~success
    /\ (success /\ pc \in {"record", "append", "count", "save", "sleep"}) =>
           response.code = 204

C12_Witness ==
    /\ pc = "record"
    /\ attempt = MAX_RETRIES
    /\ response.code = 429
    /\ ~success
    /\ nSuccess >= 1

\* The answers that are neither a success nor a rate-limit answer: a 403
\* without a rate-limit text, 401, 404, 500.
HardFailures ==
    {r \in Responses : r.code # 204 /\ r.code # 429 /\ ~(r.code = 403 /\ r.rl)}

\* C13: after an answer that is neither a success nor a rate-limit answer,
\* follow_user issues no further request for the login and returns false;
\* when it is the answer to the first request the call has issued exactly
\* one request.
C13_HardFailureNeverRetried ==
    (pc \in {"follow", "record", "sleep"} /\ response \in HardFailures) =>
        /\ pc # "follow"
        /\ ~success
        /\ user \notin followed_users

C13_Witness ==
    /\ pc = "record"
    /\ response = [code |-> 403, rl |-> FALSE]
    /\ attempt = 1
    /\ ~success

\* The logins whose follow_user call of this run returned false (a login
\* handed to follow_user is not in followed_users, and enters it on success
\* only).
FailedFollows == Attempted \ followed_users

\* C14: a follow_user call that returned false does not end the run: a run
\* that finishes has handed to follow_user every follower listed after the
\* failed one, on its page and on the later pages, that was not already in
\* the followed set.
C14_FailedFollowDoesNotAbort ==
    EndedNormally =>
        \A a \in FailedFollows :
            \A j \in (IndexOf(upstream, a) + 1)..Len(upstream) :
                upstream[j] \in Attempted \cup followed_users

C14_Witness ==
    /\ EndedNormally
    /\ Len(upstream) = 3
    /\ Head(upstream) \in FailedFollows
    /\ Len(runAttempts) = 3
    /\ nSuccess = 1

\* A step of the run that issues a request: a page fetch or a follow PUT.
IssuesRequest ==
    \/ FetchOk
    \/ FetchHttpError
    \/ FetchNetError
    \/ FetchMalformed
    \/ FollowRequest

\* C15: once a request of the run, page fetch or follow request, has been
\* answered 401, the run issues no further page fetch and no further follow
\* request.
C15_UnauthorizedEndsRun ==
    [][unauthorized => ~IssuesRequest]_vars

\* C16: the fetch of one page is retried a bounded number of times (the
\* maximum attempt count) and then the run aborts: the run is never about to
\* fetch a page whose fetch has failed more than MAX_RETRIES times in a row.
C16_FetchRetriesBounded ==
    pc = "fetch" => fetchFailures <= MAX_RETRIES

\* C17: when the rate-limit query of main() has failed, the run is throttled
\* as for a quota of 0 before its next request: it has slept at least the
\* fallback delay when it is about to fetch.
C17_FailedQueryThrottles ==
    (pc = "fetch" /\ rate = QueryFailed) => slept >= DELAY_ON_RATE_LIMIT

\* C18: when the last rate-limit query reported a quota below the threshold,
\* the run is about to issue its next request (always a page fetch) only
\* after a sleep of max(reset_time - now, DELAY_ON_RATE_LIMIT) seconds, and
\* on no other answer has it slept.
C18_LowQuotaSleepsUntilReset ==
    pc = "fetch" =>
        IF rate.st = "ok" /\ rate.remaining < RATE_LIMIT_THRESHOLD
        THEN slept = Max(rate.reset_time, DELAY_ON_RATE_LIMIT)
        ELSE slept = 0

C18_Witness ==
    /\ pc = "fetch"
    /\ current_page = 2
    /\ rate.st = "ok"
    /\ rate.remaining = RATE_LIMIT_THRESHOLD - 1
    /\ rate.reset_time > DELAY_ON_RATE_LIMIT
    /\ slept = rate.reset_time

\* The followers this run has still to hand to follow_user once the current
\* iteration is over: those listed after the current one and not followed.
LeftToFollow ==
    {upstream[j] : j \in ((current_page - 1) * per_page + idx + 2)
                             ..Len(upstream)} \ followed_users

\* C19: the pipeline sleeps between batches only, never after the final
\* batch (so ceil(n/b) - 1 times for n new followers, whatever the batch
\* size b): when it sleeps after a follow call, a follower is left to follow.
C19_NoSleepAfterFinalBatch ==
    pc = "sleep" => LeftToFollow # {}

\* C20: every step, of a run or between runs, interrupted or not, leaves
\* the followed file as it is or adds lines after the ones it had (nothing
\* is removed), and then no login is on two of its lines.
C20_FollowedFileGrowsWithoutDuplicates ==
    [][\/ followersFile' = followersFile
       \/ /\ Len(followersFile') > Len(followersFile)
          /\ SubSeq(followersFile', 1, Len(followersFile)) = followersFile
          /\ \A i, j \in 1..Len(followersFile') :
                 i # j => followersFile'[i] # followersFile'[j]]_vars

C20_Witness ==
    /\ pc = "count"
    /\ prevEnd \in {"interrupt", "crash"}
    /\ Len(followersFile) = 3
    /\ followersFile[3] = user
    /\ nSuccess = 1

\* A step of the run that issues the GET of a page.
FetchesPage ==
    \/ FetchOk
    \/ FetchHttpError
    \/ FetchNetError
    \/ FetchMalformed

\* C21: a page with fewer items than the page size is the last one fetched:
\* the run issues the GET of a page only when it holds no page yet (its
\* first fetch) or when the page it has just scanned was full.
C21_ShortPageIsLast ==
    [][FetchesPage => (followers = <<>> \/ Len(followers) = per_page)]_vars

\* C22: an undecodable page payload ends the run: once a fetch has got one,
\* the run is past its loop (on its way out through line 340, or over); it
\* is not back at fetching the page.
C22_MalformedPageEndsRun ==
    malformed => pc \in {"final", "done"}


\* C24: the cursor file is written only for a login whose follow call
\* returned true: what main does right after follow_user has returned false
\* for a login leaves the cursor file as it was.
C24_CursorWrittenOnlyOnSuccess ==
    [][lastCheckedFile' = lastCheckedFile
       \/ ~(pc = "record" /\ ~success)]_vars

(* a claim checked under RefollowSpec, where accounts may come back *)
\* C25: a follow call is never issued for a login that is in the followed
\* set of the run or in followers.txt, whatever runs came before.
C25_NoFollowCallForFollowed ==
    pc = "follow"
        => (user \notin followed_users /\ user \notin Range(followersFile))

\* The scan, past the cursor, is at a login that an earlier run followed
\* and recorded.
C25_Witness ==
    /\ pc = "scan"
    /\ resume
    /\ idx < Len(followers)
    /\ followers[idx + 1] \in followed_users
    /\ followers[idx + 1] \in Range(followersFile)

(* claims about the listing endpoint, checked under WebSpec *)
\* C23: handling a request to /followers changes none of the cursor,
\* followed-set, counter and current-page files and issues no follow call;
\* it reads page 1, 2, ... of the listing, and when it answers 200 the body
\* is the whole listing, in listing order.
C23_ListingOnlyReads ==
    [][/\ UNCHANGED <<storeVars, runAttempts>>
       /\ (api_pc = "get" /\ api_pc' = "get") => api_page' = api_page + 1
       /\ (api_pc' = "answered" /\ api_answer'.status = 200)
              => api_answer'.body = upstream']_vars

\* A request over a listing of more than one page was answered 200 while
\* the bot's files held a cursor and a followed login.
C23_Witness ==
    /\ api_pc = "answered"
    /\ api_answer.status = 200
    /\ Len(api_answer.body) > per_page
    /\ lastCheckedFile # None
    /\ followersFile # <<>>

\* C26: when the upstream listing answered a page with a status other than
\* 200, the endpoint's answer carries that same status and no follower list.
C26_UpstreamStatusPassedOn ==
    (api_pc = "answered" /\ api_upstream \notin {0, 200})
        => (api_answer.status = api_upstream /\ api_answer.body = <<>>)

=============================================================================
